---- MODULE Spec2Model ----
(***************************************************************************)
(* The request-gating core of the feedback API: the per-client fixed-window *)
(* rate limiter (src/middleware.rs), the JWKS signing-key cache and the     *)
(* token verifier (src/auth/mod.rs), composed as in src/main.rs; and the     *)
(* feedback service behind it (src/services/feedback_service.rs) with the  *)
(* validation of a submission (src/validation.rs).                         *)
(*                                                                         *)
(* Every request is a task of the async runtime; tasks run in parallel and *)
(* interleave at every access to shared state (the rate-limit map, the key *)
(* cache, the clock, the identity provider).                               *)
(***************************************************************************)
EXTENDS Integers, Sequences, FiniteSets, TLC

\* ------------------------------------------------------------------ bounds

\* Request tasks that can be in flight together.
NumProcs == 2
\* Requests served in one behaviour.
MaxRequests == 2
\* The clock is observed at the start of a period and up to TimeSlack after it.
TimeSlack == 1
\* A rate-limit entry may start up to InitSlack requests short of its limit.
InitSlack == 1

\* ------------------------------------------------------- program constants

\* middleware.rs:62  if *count >= 100
GENERAL_LIMIT == 100
\* middleware.rs:56  Duration::from_secs(1)
GENERAL_WINDOW == 1
\* middleware.rs:94  if *count >= 5
AUTH_LIMIT == 5
\* middleware.rs:88  Duration::from_secs(60)
AUTH_WINDOW == 60

Procs == 1..NumProcs

\* Client addresses (addr.ip().to_string()).
Clients == {"A", "B"}

\* ------------------------------------------------------------------ routes

\* The three route groups of main.rs.
Routes == {"/api/v1/feedbacks", "/auth/login", "/health"}

\* The middleware each group is given, in the order of the calls in main.rs
\* (route_layer / layer).
LayerCalls(route) ==
    CASE route = "/api/v1/feedbacks" -> <<"auth_middleware", "rate_limit_middleware">>
      [] route = "/auth/login" -> <<"auth_rate_limit_middleware">>
      [] route = "/health" -> << >>

Reverse(s) == [i \in 1..Len(s) |-> s[Len(s) + 1 - i]]

\* Fault: the layers run in the order they were added.
Pipeline_CallOrder(route) == LayerCalls(route) \o <<"handler">>

\* A layer wraps everything added before it, so the layer added last runs
\* first; the handler runs last.
Pipeline(route) == Reverse(LayerCalls(route)) \o <<"handler">>

\* --------------------------------------------------------- rate-limit state

IsRateLimiter(mw) == mw \in {"rate_limit_middleware", "auth_rate_limit_middleware"}

\* Fault: one window shared by every client.
RateKey_IgnoresClient(mw, ip) ==
    IF mw = "auth_rate_limit_middleware" THEN "auth_" \o "A" ELSE "A"

\* Fault: the login limiter keys its windows by the bare address.
RateKey_NoPrefix(mw, ip) == ip

\* The map key each limiter builds from the client address.
RateKey(mw, ip) ==
    IF mw = "auth_rate_limit_middleware" THEN "auth_" \o ip ELSE ip

Keys == {RateKey(mw, ip) : mw \in {"rate_limit_middleware", "auth_rate_limit_middleware"},
                           ip \in Clients}

RateLimit(mw) == IF mw = "auth_rate_limit_middleware" THEN AUTH_LIMIT ELSE GENERAL_LIMIT

RateWindow(mw) == IF mw = "auth_rate_limit_middleware" THEN AUTH_WINDOW ELSE GENERAL_WINDOW

\* The limiter that owns a key.
KeyLimiter(k) == CHOOSE mw \in {"rate_limit_middleware", "auth_rate_limit_middleware"} :
                    \E ip \in Clients : RateKey(mw, ip) = k

Absent == [count |-> -1, window_start |-> -1]

\* Fault: the difference of two instants is taken without its sign.
DurationSince_Unsigned(t, earlier) == IF t >= earlier THEN t - earlier ELSE earlier - t

\* Instant::duration_since saturates to zero when the argument is later.
DurationSince(t, earlier) == IF t >= earlier THEN t - earlier ELSE 0

\* Fault: the window restarts as soon as its length has elapsed.
WindowElapsed_AtWindow(t, entry, window) == DurationSince(t, entry.window_start) >= window

\* now.duration_since(*window_start) > Duration::from_secs(W)
WindowElapsed(t, entry, window) == DurationSince(t, entry.window_start) > window

\* Faults used to test the properties below: an off-by-one limit check, and
\* a restart that forgets to zero the count.
LimitExceeded_OffByOne(count, limit) == count > limit

ResetWindow_KeepsCount(entry, t) == [count |-> entry.count, window_start |-> t]

\* *count >= limit
LimitExceeded(count, limit) == count >= limit

\* *count = 0; *window_start = now;
ResetWindow(entry, t) == [count |-> 0, window_start |-> t]

\* The body of the 429 each limiter answers with.
RateLimitBody(mw) ==
    IF mw = "auth_rate_limit_middleware"
    THEN "Too many login attempts. Please try again later."
    ELSE "Rate limit exceeded. Please try again later."

\* ----------------------------------------------------------- key documents

\* config.rs:36  KEYCLOAK_JWKS_CACHE_TTL defaults to 3600 seconds
CACHE_TTL == 3600

NoKid == "-"

\* The identity provider's key document before and after a key rotation.  An
\* entry is (kid, use, n/e); rsa says whether n and e make an RSA key, mat
\* names the key pair.
JwksDocument(v) ==
    IF v = 1
    THEN {[kid |-> "K1", use |-> "sig", rsa |-> TRUE, mat |-> 1],
          [kid |-> "KE", use |-> "enc", rsa |-> TRUE, mat |-> 5]}
    ELSE {[kid |-> "K2", use |-> NoKid, rsa |-> TRUE, mat |-> 2],
          [kid |-> "KE", use |-> "enc", rsa |-> TRUE, mat |-> 5],
          [kid |-> "KB", use |-> "sig", rsa |-> FALSE, mat |-> 6]}

\* Fault: every entry of the document is taken, whatever its use.
UsableForSignature_AnyUse(e) == TRUE

\* key.key_use.as_deref() == Some("sig") || key.key_use.is_none()
UsableForSignature(e) == e.use = "sig" \/ e.use = NoKid

\* fetch_jwks, the loop over jwks.keys: kid -> DecodingKey.
BuildKeys(doc) ==
    LET ok == {e \in doc : UsableForSignature(e) /\ e.rsa} IN
    [k \in {e.kid : e \in ok} |-> (CHOOSE e \in ok : e.kid = k).mat]

NoKeys == BuildKeys({})

\* Fault: the cache expires one tick early.
IsExpired_AtTtl(c, t) == DurationSince(t, c.last_update) >= CACHE_TTL

\* JwksCache::is_expired: self.last_update.elapsed() > self.ttl
IsExpired(c, t) == DurationSince(t, c.last_update) > CACHE_TTL

\* ------------------------------------------------------------------ tokens
\* (Record constructors list their fields in one fixed order throughout.)

NoToken == [kid |-> NoKid, hdr |-> "none", form |-> "ok", sig |-> 0, exp |-> 0, iss |-> "-"]

Bearer(kid, sig, exp, iss) ==
    [kid |-> kid, hdr |-> "bearer", form |-> "ok", sig |-> sig, exp |-> exp, iss |-> iss]

\* auth.rs:144  Validation::new(Algorithm::RS256): the default leeway on exp
LEEWAY == 60

\* KEYCLOAK_URL, the provider's realm URL, by its host.
RealmUrl(host) == "http://" \o host \o "/realms/r"

KeycloakHost == "keycloak:8180"

\* self.keycloak_url.replace("keycloak:8180", "localhost:8180")
LocalhostHost(host) == IF host = "keycloak:8180" THEN "localhost:8180" ELSE host

\* validation.set_issuer(&[&self.keycloak_url, &localhost_url])
AcceptedIssuers == {RealmUrl(KeycloakHost), RealmUrl(LocalhostHost(KeycloakHost))}

\* Fault: the issuer is not checked.
Decodes_IgnoresIssuer(tok, key, t) ==
    /\ tok.sig = key
    /\ tok.exp >= t - LEEWAY

\* decode::<Claims>(token, &key, &validation): the signature verifies under
\* the key, exp is not more than the leeway in the past, iss is accepted.
Decodes(tok, key, t) ==
    /\ tok.sig = key
    /\ tok.exp >= t - LEEWAY
    /\ tok.iss \in AcceptedIssuers

NoRequest == [route |-> "/health", client |-> "A", token |-> NoToken]

\* The extensions of a request that carries no Claims.
NoClaims == [exp |-> 0, iss |-> "-"]

\* token_data.claims: the Claims decoded from the token's payload.
ClaimsOf(tok) == [exp |-> tok.exp, iss |-> tok.iss]

\* ---------------------------------------------------- feedback submissions

\* A string, by its number of characters, its number of bytes in UTF-8, and
\* whether it is made of whitespace only.
Str(chars, bytes, blank) == [chars |-> chars, bytes |-> bytes, blank |-> blank]

\* Option<String>::None
NoStr == Str(-1, -1, FALSE)

\* Option<i32>: None is the empty set, Some(r) the set of r alone.
NoRating == {}

Some(r) == {r}

Unwrap(o) == CHOOSE r \in o : TRUE

\* validation.rs:17  self.service.len() > 100
MAX_SERVICE_LEN == 100
\* validation.rs:70  comment.len() > 5000
MAX_COMMENT_LEN == 5000

\* (1..=5).contains(&rating)
RatingInRange(r) == r >= 1 /\ r <= 5

\* (0..=10).contains(&rating)
NpsInRange(r) == r >= 0 /\ r <= 10

\* String::len: the length in bytes.
ByteLen(str) == str.bytes

\* String::is_empty
IsEmpty(str) == str.bytes = 0

\* str::trim().is_empty()
TrimIsEmpty(str) == str.bytes = 0 \/ str.blank

FeedbackTypes == {"Rating", "Thumbs", "Comment", "Nps"}

FeedbackSubmission(service, feedback_type, rating, thumbs_up, comment) ==
    [service |-> service, feedback_type |-> feedback_type, rating |-> rating,
     thumbs_up |-> thumbs_up, comment |-> comment]

\* impl Validate for FeedbackSubmission: the message of the ValidationError,
\* or "" for Ok(()).
Validate(s) ==
    CASE IsEmpty(s.service) -> "Service name cannot be empty"
      [] ByteLen(s.service) > MAX_SERVICE_LEN -> "Service name too long (max 100 characters)"
      [] s.feedback_type = "Rating" /\ s.rating = NoRating
            -> "Rating is required for Rating feedback type"
      [] s.feedback_type = "Rating" /\ ~RatingInRange(Unwrap(s.rating))
            -> "Rating must be between 1 and 5"
      [] s.feedback_type = "Nps" /\ s.rating = NoRating
            -> "Rating is required for NPS feedback type"
      [] s.feedback_type = "Nps" /\ ~NpsInRange(Unwrap(s.rating))
            -> "NPS score must be between 0 and 10"
      [] s.feedback_type = "Thumbs" /\ s.thumbs_up = "none"
            -> "thumbs_up is required for Thumbs feedback type"
      [] s.feedback_type = "Comment" /\ (s.comment = NoStr \/ IsEmpty(s.comment))
            -> "Comment is required for Comment feedback type"
      [] s.comment # NoStr /\ ByteLen(s.comment) > MAX_COMMENT_LEN
            -> "Comment too long (max 5000 characters)"
      [] OTHER -> ""

\* FeedbackService::validate_feedback_submission after submission.validate():
\* the additional business rules.
BusinessRules(s) ==
    CASE TrimIsEmpty(s.service) -> "Service name cannot be empty"
      [] s.rating # NoRating /\ s.feedback_type \notin {"Rating", "Nps"}
            -> "Rating is not applicable for feedback type"
      [] s.thumbs_up # "none" /\ s.feedback_type # "Thumbs"
            -> "Thumbs up/down is not applicable for feedback type"
      [] OTHER -> ""

\* The feedback no call has produced (the local `feedback` before persist).
NoFeedback == 0

NoSubmission == FeedbackSubmission(Str(0, 0, FALSE), "Rating", NoRating, "none", NoStr)

VARIABLES
    now,        \* the clock (Instant::now())
    rl,         \* RATE_LIMIT_MAP: key -> (count, window_start), or Absent
    rlLock,     \* per key: the tasks holding its entry guard
    cache,      \* JwksCache: keys (kid -> key) and last_update
    cacheW,     \* the tasks holding the cache's write lock
    idp,        \* the key document the identity provider serves now
    pc,         \* each task's position
    rq,         \* each task's request: client, route, token
    stage,      \* each task's position in its route's pipeline
    tnow,       \* each task's `now` local (sampled before the entry is locked)
    got,        \* each task's `keys` local (the result of fetch_jwks)
    resp,       \* each task's response status, 0 while there is none
    body,       \* each task's response body, "" while there is none
    nreq,       \* requests accepted so far
    admitted,   \* per key: requests admitted since the window last started
    rejected,   \* per key: requests rejected since the window last started
    lookups,    \* per task: reads of the key cache made for its request
    fetches,    \* per task: GETs of the key document made for its request
    err,        \* per task: why its request was refused ("" when it was not)
    raced,      \* a limit check ran while another request waited for the same key
    ext,        \* each task's request extensions: the Claims attached to it
    log,        \* per observed key: the admissions made at each instant
    webhook_urls, \* config.webhook_urls: how many URLs are configured
    fpc,        \* the position of the call of create_feedback
    submission, \* its `submission` argument
    feedback,   \* its `feedback` local: the row the repository returned
    fres,       \* its result: "Ok", the message of its error, "" while it runs
    rows,       \* feedbacks persisted by the repository
    counted,    \* feedbacks recorded in the metrics
    hooks,      \* webhook tasks spawned
    calls       \* calls of create_feedback made so far

vars == <<now, rl, rlLock, cache, cacheW, idp, pc, rq, stage, tnow, got, resp, body,
          nreq, admitted, rejected, lookups, fetches, err, raced, ext, log,
          webhook_urls, fpc, submission, feedback, fres, rows, counted, hooks, calls>>

rlVars == <<rl, rlLock, admitted, rejected, raced, log>>
kcVars == <<cache, cacheW, idp>>
fbVars == <<webhook_urls, fpc, submission, feedback, fres, rows, counted, hooks, calls>>
gwVars == <<now, rl, rlLock, cache, cacheW, idp, pc, rq, stage, tnow, got, resp, body,
            nreq, admitted, rejected, lookups, fetches, err, raced, ext, log>>

\* --------------------------------------------------------------- requests

\* Fault: the check and the increment are not one critical section.
EntryFree_NoGuard(k) == TRUE

\* The entry guard of a key is free (DashMap::entry blocks until it is).
EntryFree(k) == rlLock[k] = {}

\* Fault: the 401 tells the caller which check failed.
AuthFailureBody_Detailed(why) == why

\* auth_middleware turns every failure into Err(StatusCode::UNAUTHORIZED): the
\* reason is logged, the response is the bare status with an empty body.
AuthFailureBody(why) == ""

\* The request of task p is answered with `status` and the body `text`; `why`
\* is the reason of a refusal (the text of the Err, or of the 429 body).
Answer(p, status, text, why) ==
    /\ pc' = [pc EXCEPT ![p] = "done"]
    /\ resp' = [resp EXCEPT ![p] = status]
    /\ body' = [body EXCEPT ![p] = text]
    /\ err' = [err EXCEPT ![p] = why]
    /\ tnow' = [tnow EXCEPT ![p] = 0]

\* The task p goes on to position `to`.
Goto(p, to) ==
    /\ pc' = [pc EXCEPT ![p] = to]
    /\ resp' = [resp EXCEPT ![p] = 0]
    /\ body' = [body EXCEPT ![p] = ""]
    /\ err' = [err EXCEPT ![p] = ""]
    /\ tnow' = [tnow EXCEPT ![p] = IF to = "rl_entry" THEN now ELSE 0]

\* Fault: the kid is not required.
HeaderError_KidUnchecked(tok) ==
    CASE tok.hdr # "bearer" -> "Unauthorized"
      [] tok.form # "ok" -> "Invalid token header"
      [] OTHER -> ""

\* auth_middleware up to the key lookup: the Authorization header must be
\* there and start with "Bearer "; validate_token: the token's header must
\* parse (decode_header) and carry a kid.  The reason of the refusal, or "".
HeaderError(tok) ==
    CASE tok.hdr # "bearer" -> "Unauthorized"
      [] tok.form # "ok" -> "Invalid token header"
      [] tok.kid = NoKid -> "Token header missing 'kid'"
      [] OTHER -> ""

\* What entering stage i does before it first touches shared state.
\*   rate limiters: let now = Instant::now();
\*   auth_middleware: see HeaderError;
\*   handler: the business handler starts.
Begin(p, r, i) ==
    LET mw == Pipeline(r.route)[i] IN
    /\ stage' = [stage EXCEPT ![p] = i]
    /\ IF IsRateLimiter(mw)
       THEN Goto(p, "rl_entry")
       ELSE IF mw = "auth_middleware"
       THEN IF HeaderError(r.token) = ""
            THEN Goto(p, "kc_read")
            ELSE Answer(p, 401, AuthFailureBody(HeaderError(r.token)), HeaderError(r.token))
       ELSE Goto(p, "handler")

\* A request is given a free task (tasks differ in name only: it is given the
\* first one) and enters the first stage of its route's pipeline.
Accept(p, r) ==
    /\ pc[p] \in {"idle", "done"}
    /\ \A q \in Procs : pc[q] \in {"idle", "done"} => p <= q
    /\ nreq' = nreq + 1
    /\ rq' = [rq EXCEPT ![p] = r]
    /\ lookups' = [lookups EXCEPT ![p] = 0]
    /\ fetches' = [fetches EXCEPT ![p] = 0]
    /\ ext' = [ext EXCEPT ![p] = NoClaims]
    /\ Begin(p, r, 1)
    /\ UNCHANGED <<fbVars, now, rlVars, kcVars, got>>

\* A request arrives, one of the MaxRequests of a behaviour.
Arrive(p, r) ==
    /\ nreq < MaxRequests
    /\ Accept(p, r)

\* Fault: a rejected request is counted too.
RlCheck_CountsRejected(p) ==
    LET mw == Pipeline(rq[p].route)[stage[p]]
        k == RateKey(mw, rq[p].client)
        found == IF rl[k] = Absent THEN [count |-> 0, window_start |-> tnow[p]] ELSE rl[k]
        reset == WindowElapsed(tnow[p], found, RateWindow(mw))
        cur == IF reset THEN ResetWindow(found, tnow[p]) ELSE found
    IN
    /\ pc[p] = "rl_entry"
    /\ EntryFree(k)
    /\ rl' = [rl EXCEPT ![k] = IF LimitExceeded(cur.count, RateLimit(mw))
                             THEN [cur EXCEPT !.count = @ + 1]
                             ELSE cur]
    /\ raced' = (raced \/ \E q \in Procs \ {p} :
                    /\ pc[q] = "rl_entry"
                    /\ RateKey(Pipeline(rq[q].route)[stage[q]], rq[q].client) = k)
    /\ admitted' = [admitted EXCEPT ![k] = IF reset THEN 0 ELSE @]
    /\ IF LimitExceeded(cur.count, RateLimit(mw))
       THEN /\ Answer(p, 429, RateLimitBody(mw), RateLimitBody(mw))
            /\ rejected' = [rejected EXCEPT ![k] = IF reset THEN 1 ELSE @ + 1]
            /\ rlLock' = rlLock
       ELSE /\ pc' = [pc EXCEPT ![p] = "rl_locked"]
            /\ rejected' = [rejected EXCEPT ![k] = IF reset THEN 0 ELSE @]
            /\ rlLock' = [rlLock EXCEPT ![k] = @ \cup {p}]
            /\ UNCHANGED <<resp, body, tnow, err>>
    /\ UNCHANGED <<fbVars, now, kcVars, rq, stage, got, nreq, lookups, fetches, ext, log>>

\* rate_limit_middleware / auth_rate_limit_middleware, from entry() to the
\* limit check: take the entry guard, insert (0, now) when the key is new,
\* restart the window when it has elapsed, reject when the count is at the
\* limit (the guard is dropped on return).
RlCheck(p) ==
    LET mw == Pipeline(rq[p].route)[stage[p]]
        k == RateKey(mw, rq[p].client)
        found == IF rl[k] = Absent THEN [count |-> 0, window_start |-> tnow[p]] ELSE rl[k]
        reset == WindowElapsed(tnow[p], found, RateWindow(mw))
        cur == IF reset THEN ResetWindow(found, tnow[p]) ELSE found
    IN
    /\ pc[p] = "rl_entry"
    /\ EntryFree(k)
    /\ rl' = [rl EXCEPT ![k] = cur]
    /\ raced' = (raced \/ \E q \in Procs \ {p} :
                    /\ pc[q] = "rl_entry"
                    /\ RateKey(Pipeline(rq[q].route)[stage[q]], rq[q].client) = k)
    /\ admitted' = [admitted EXCEPT ![k] = IF reset THEN 0 ELSE @]
    /\ IF LimitExceeded(cur.count, RateLimit(mw))
       THEN /\ Answer(p, 429, RateLimitBody(mw), RateLimitBody(mw))
            /\ rejected' = [rejected EXCEPT ![k] = IF reset THEN 1 ELSE @ + 1]
            /\ rlLock' = rlLock
       ELSE /\ pc' = [pc EXCEPT ![p] = "rl_locked"]
            /\ rejected' = [rejected EXCEPT ![k] = IF reset THEN 0 ELSE @]
            /\ rlLock' = [rlLock EXCEPT ![k] = @ \cup {p}]
            /\ UNCHANGED <<resp, body, tnow, err>>
    /\ UNCHANGED <<fbVars, now, kcVars, rq, stage, got, nreq, lookups, fetches, ext, log>>

\* Fault: the entry guard is not dropped before the next stage is awaited.
RlAdmit_NoDrop(p) ==
    LET mw == Pipeline(rq[p].route)[stage[p]]
        k == RateKey(mw, rq[p].client)
    IN
    /\ pc[p] = "rl_locked"
    /\ rl' = [rl EXCEPT ![k].count = @ + 1]
    /\ rlLock' = rlLock
    /\ admitted' = [admitted EXCEPT ![k] = @ + 1]
    /\ log' = [o \in DOMAIN log |->
                 IF o = k THEN [log[o] EXCEPT ![now] = @ + 1] ELSE log[o]]
    /\ Begin(p, rq[p], stage[p] + 1)
    /\ UNCHANGED <<fbVars, now, kcVars, rq, got, nreq, rejected, lookups, fetches, raced, ext>>

\* Fault: the request that opens a window is not counted in it.
RlAdmit_OpenerNotCounted(p) ==
    LET mw == Pipeline(rq[p].route)[stage[p]]
        k == RateKey(mw, rq[p].client)
    IN
    /\ pc[p] = "rl_locked"
    /\ rl' = [rl EXCEPT ![k].count = IF @ = 0 THEN 0 ELSE @ + 1]
    /\ rlLock' = [rlLock EXCEPT ![k] = @ \ {p}]
    /\ admitted' = [admitted EXCEPT ![k] = @ + 1]
    /\ log' = [o \in DOMAIN log |->
                 IF o = k THEN [log[o] EXCEPT ![now] = @ + 1] ELSE log[o]]
    /\ Begin(p, rq[p], stage[p] + 1)
    /\ UNCHANGED <<fbVars, now, kcVars, rq, got, nreq, rejected, lookups, fetches, raced, ext>>

\* *count += 1; drop(entry); next.run(req)
RlAdmit(p) ==
    LET mw == Pipeline(rq[p].route)[stage[p]]
        k == RateKey(mw, rq[p].client)
    IN
    /\ pc[p] = "rl_locked"
    /\ rl' = [rl EXCEPT ![k].count = @ + 1]
    /\ rlLock' = [rlLock EXCEPT ![k] = @ \ {p}]
    /\ admitted' = [admitted EXCEPT ![k] = @ + 1]
    /\ log' = [o \in DOMAIN log |->
                 IF o = k THEN [log[o] EXCEPT ![now] = @ + 1] ELSE log[o]]
    /\ Begin(p, rq[p], stage[p] + 1)
    /\ UNCHANGED <<fbVars, now, kcVars, rq, got, nreq, rejected, lookups, fetches, raced, ext>>

\* The business handler answers.
Handler(p) ==
    /\ pc[p] = "handler"
    /\ Answer(p, 200, "handler output", "")
    /\ UNCHANGED <<fbVars, now, rlVars, kcVars, rq, stage, got, nreq, lookups, fetches, ext>>

\* Time passes.
Tick(instants) ==
    /\ \E t \in instants : t > now /\ now' = t
    /\ UNCHANGED <<fbVars, rlVars, kcVars, pc, rq, stage, tnow, got, resp, body, nreq, lookups,
                   fetches, err, ext>>

\* ---------------------------------------------------------- the key cache

\* RwLock::read() is granted while no task holds the write lock.
CacheReadable == cacheW = {}

\* RwLock::write() is granted while no task holds the lock (a read guard is
\* never held across a step: see KcRead).
CacheWritable == cacheW = {}

\* Fault: the verifier lets the request through whatever decode says.
AfterKey_FailOpen(p, key) ==
    /\ ext' = [ext EXCEPT ![p] = ClaimsOf(rq[p].token)]
    /\ Begin(p, rq[p], stage[p] + 1)

\* validate_token after get_decoding_key returned `key`: decode the token;
\* auth_middleware then attaches the claims (req.extensions_mut().insert) and
\* runs the next stage, or answers 401.
AfterKey(p, key) ==
    IF Decodes(rq[p].token, key, now)
    THEN /\ ext' = [ext EXCEPT ![p] = ClaimsOf(rq[p].token)]
         /\ Begin(p, rq[p], stage[p] + 1)
    ELSE /\ Answer(p, 401, AuthFailureBody("Token validation failed"),
                   "Token validation failed")
         /\ UNCHANGED <<stage, ext>>

\* get_decoding_key, the read block: under the read lock, return the cached
\* key when the cache is not expired and holds the kid; otherwise release the
\* lock and send the GET of fetch_jwks.
KcRead(p) ==
    LET kid == rq[p].token.kid IN
    /\ pc[p] = "kc_read"
    /\ CacheReadable
    /\ lookups' = [lookups EXCEPT ![p] = @ + 1]
    /\ IF ~IsExpired(cache, now) /\ kid \in DOMAIN cache.keys
       THEN AfterKey(p, cache.keys[kid]) /\ fetches' = fetches
       ELSE /\ pc' = [pc EXCEPT ![p] = "kc_fetch"]
            /\ fetches' = [fetches EXCEPT ![p] = @ + 1]
            /\ UNCHANGED <<stage, tnow, resp, body, err, ext>>
    /\ UNCHANGED <<fbVars, now, rlVars, kcVars, rq, got, nreq>>

\* Faults: a failed fetch is tried again; a failed fetch empties the cache; a
\* failed fetch falls back on the cached key.
FetchErr_Retries(p) ==
    /\ pc[p] = "kc_fetch"
    /\ fetches[p] < 3
    /\ fetches' = [fetches EXCEPT ![p] = @ + 1]
    /\ UNCHANGED <<fbVars, now, rlVars, kcVars, pc, rq, stage, tnow, got, resp, body, nreq, lookups,
                   err, ext>>

FetchErr_ClearsCache(p) ==
    /\ pc[p] = "kc_fetch"
    /\ Answer(p, 401, AuthFailureBody("Failed to fetch JWKS"), "Failed to fetch JWKS")
    /\ cache' = [cache EXCEPT !.keys = NoKeys]
    /\ UNCHANGED <<fbVars, now, rlVars, cacheW, idp, rq, stage, got, nreq, lookups, fetches, ext>>

FetchErr_ServesStale(p) ==
    /\ pc[p] = "kc_fetch"
    /\ IF rq[p].token.kid \in DOMAIN cache.keys
       THEN AfterKey(p, cache.keys[rq[p].token.kid])
       ELSE /\ Answer(p, 401, AuthFailureBody("Failed to fetch JWKS"), "Failed to fetch JWKS")
            /\ UNCHANGED <<stage, ext>>
    /\ UNCHANGED <<fbVars, now, rlVars, kcVars, rq, got, nreq, lookups, fetches>>

\* fetch_jwks fails (the GET or the JSON parse): `?` returns the error.
FetchErr(p) ==
    /\ pc[p] = "kc_fetch"
    /\ Answer(p, 401, AuthFailureBody("Failed to fetch JWKS"), "Failed to fetch JWKS")
    /\ UNCHANGED <<fbVars, now, rlVars, kcVars, rq, stage, got, nreq, lookups, fetches, ext>>

\* fetch_jwks succeeds with the document the provider serves; the kid is
\* looked up in the fetched keys and `?` returns when it is not there.
FetchOk(p) ==
    LET keys == BuildKeys(JwksDocument(idp)) IN
    /\ pc[p] = "kc_fetch"
    /\ IF rq[p].token.kid \in DOMAIN keys
       THEN /\ pc' = [pc EXCEPT ![p] = "kc_write"]
            /\ got' = [got EXCEPT ![p] = keys]
            /\ UNCHANGED <<tnow, resp, body, err>>
       ELSE /\ Answer(p, 401, AuthFailureBody("Key not found"), "Key not found")
            /\ got' = got
    /\ UNCHANGED <<fbVars, now, rlVars, kcVars, rq, stage, nreq, lookups, fetches, ext>>

\* Fault: the key map is replaced without holding the write lock.
KcWrite_NoLock(p) ==
    /\ pc[p] = "kc_write"
    /\ cache' = [cache EXCEPT !.keys = got[p]]
    /\ pc' = [pc EXCEPT ![p] = "kc_stamp"]
    /\ UNCHANGED <<fbVars, now, rlVars, cacheW, idp, rq, stage, tnow, got, resp, body, nreq, lookups,
                   fetches, err, ext>>

\* let mut cache = self.jwks_cache.write().await; cache.keys = keys;
KcWrite(p) ==
    /\ pc[p] = "kc_write"
    /\ CacheWritable
    /\ cacheW' = cacheW \cup {p}
    /\ cache' = [cache EXCEPT !.keys = got[p]]
    /\ pc' = [pc EXCEPT ![p] = "kc_stamp"]
    /\ UNCHANGED <<fbVars, now, rlVars, idp, rq, stage, tnow, got, resp, body, nreq, lookups, fetches,
                   err, ext>>

\* cache.last_update = Instant::now(); the write guard is dropped; Ok(key)
KcStamp(p) ==
    /\ pc[p] = "kc_stamp"
    /\ cache' = [cache EXCEPT !.last_update = now]
    /\ cacheW' = cacheW \ {p}
    /\ got' = [got EXCEPT ![p] = NoKeys]
    /\ AfterKey(p, got[p][rq[p].token.kid])
    /\ UNCHANGED <<fbVars, now, rlVars, idp, rq, nreq, lookups, fetches>>

\* The identity provider rotates its signing keys.
Rotate ==
    /\ idp = 1
    /\ idp' = 2
    /\ UNCHANGED <<fbVars, now, rlVars, cache, cacheW, pc, rq, stage, tnow, got, resp, body, nreq,
                   lookups, fetches, err, ext>>

\* ----------------------------------------------------- the feedback service

\* create_feedback is called with a submission.
CallCreateFeedback(s) ==
    /\ fpc \in {"idle", "done"}
    /\ calls < MaxRequests
    /\ calls' = calls + 1
    /\ submission' = s
    /\ feedback' = NoFeedback
    /\ fres' = ""
    /\ fpc' = "validate"
    /\ UNCHANGED <<gwVars, webhook_urls, rows, counted, hooks>>

\* The call returns `result`: its arguments are dropped.
Return(result) ==
    /\ fpc' = "done"
    /\ fres' = result
    /\ submission' = NoSubmission

\* validate_feedback_submission: submission.validate()?
StepValidate ==
    /\ fpc = "validate"
    /\ IF Validate(submission) = ""
       THEN fpc' = "rules" /\ UNCHANGED <<fres, submission>>
       ELSE Return(Validate(submission))
    /\ UNCHANGED <<gwVars, webhook_urls, feedback, rows, counted, hooks, calls>>

\* validate_feedback_submission: the additional business rules; `?` in
\* create_feedback returns the error.
StepRules ==
    /\ fpc = "rules"
    /\ IF BusinessRules(submission) = ""
       THEN fpc' = "persist" /\ UNCHANGED <<fres, submission>>
       ELSE Return(BusinessRules(submission))
    /\ UNCHANGED <<gwVars, webhook_urls, feedback, rows, counted, hooks, calls>>

\* Fault: a failed persist is ignored.
PersistErr_Continues ==
    /\ fpc = "persist"
    /\ fpc' = "metrics"
    /\ UNCHANGED <<gwVars, webhook_urls, submission, feedback, fres, rows, counted, hooks,
                   calls>>

\* self.repository.create(..).await succeeds: the row is inserted and returned.
PersistOk ==
    /\ fpc = "persist"
    /\ rows' = rows + 1
    /\ feedback' = rows + 1
    /\ fpc' = "metrics"
    /\ UNCHANGED <<gwVars, webhook_urls, submission, fres, counted, hooks, calls>>

\* self.repository.create(..).await fails: `?` returns the error.
PersistErr ==
    /\ fpc = "persist"
    /\ Return("Failed to create feedback")
    /\ UNCHANGED <<gwVars, webhook_urls, feedback, rows, counted, hooks, calls>>

\* self.record_feedback_metrics(&submission)
RecordMetrics ==
    /\ fpc = "metrics"
    /\ counted' = counted + 1
    /\ fpc' = "webhooks"
    /\ UNCHANGED <<gwVars, webhook_urls, submission, feedback, fres, rows, hooks, calls>>

\* self.trigger_webhook_notifications(feedback.clone()).await: a task is
\* spawned when webhook_urls is not empty; Ok(feedback)
TriggerWebhooks ==
    /\ fpc = "webhooks"
    /\ hooks' = IF webhook_urls > 0 THEN hooks + 1 ELSE hooks
    /\ Return("Ok")
    /\ UNCHANGED <<gwVars, webhook_urls, feedback, rows, counted, calls>>

\* ------------------------------------------------------------ the systems

\* The map at an instant when no request is in flight: empty, as constructed,
\* or every client up to InitSlack requests short of its limits in windows
\* started then.
InitMaps ==
    {[k \in Keys |-> Absent]} \cup
    {[k \in Keys |-> [count |-> RateLimit(KeyLimiter(k)) - d, window_start |-> 0]] :
        d \in 0..InitSlack}

\* The cache as constructed, or as the first refresh leaves it.
InitCaches ==
    {[last_update |-> 0, keys |-> NoKeys],
     [last_update |-> 0, keys |-> BuildKeys(JwksDocument(1))]}

\* No key is observed.
NoLog == << >>

InitTasks ==
    /\ now = 0
    /\ rlLock = [k \in Keys |-> {}]
    /\ cacheW = {}
    /\ idp = 1
    /\ pc = [p \in Procs |-> "idle"]
    /\ rq = [p \in Procs |-> NoRequest]
    /\ stage = [p \in Procs |-> 1]
    /\ tnow = [p \in Procs |-> 0]
    /\ got = [p \in Procs |-> NoKeys]
    /\ resp = [p \in Procs |-> 0]
    /\ body = [p \in Procs |-> ""]
    /\ nreq = 0
    /\ admitted = [k \in Keys |-> IF rl[k] = Absent THEN 0 ELSE rl[k].count]
    /\ rejected = [k \in Keys |-> 0]
    /\ lookups = [p \in Procs |-> 0]
    /\ fetches = [p \in Procs |-> 0]
    /\ err = [p \in Procs |-> ""]
    /\ raced = FALSE
    /\ ext = [p \in Procs |-> NoClaims]
    /\ fpc = "idle"
    /\ submission = NoSubmission
    /\ feedback = NoFeedback
    /\ fres = ""
    /\ rows = 0
    /\ counted = 0
    /\ hooks = 0
    /\ calls = 0

RateLimitCheck == \E p \in Procs : RlCheck(p)

RateLimitAdmit == \E p \in Procs : RlAdmit(p)

RunHandler == \E p \in Procs : Handler(p)

\* The rate limiter: two clients on the protected and the login routes, none
\* of them carrying a token.  The clock is observed at the start of each
\* rate-limit period and shortly after.
RlInstants == {k * w + s : k \in 0..1, w \in {GENERAL_WINDOW, AUTH_WINDOW}, s \in 0..TimeSlack}

InitRL ==
    /\ rl \in InitMaps
    /\ cache = [last_update |-> 0, keys |-> NoKeys]
    /\ InitTasks
    /\ log = NoLog
    /\ webhook_urls = 0

ArriveRL == \E p \in Procs, c \in Clients, r \in {"/api/v1/feedbacks", "/auth/login"} :
                Arrive(p, [route |-> r, client |-> c, token |-> NoToken])

TickRL == Tick(RlInstants)

NextRL == ArriveRL \/ RateLimitCheck \/ RateLimitAdmit \/ RunHandler \/ TickRL

SpecRL == InitRL /\ [][NextRL]_vars

\* The router: two clients on every route group, none of them carrying a
\* token.
InitGW ==
    /\ rl \in InitMaps
    /\ cache = [last_update |-> 0, keys |-> NoKeys]
    /\ InitTasks
    /\ log = NoLog
    /\ webhook_urls = 0

ArriveGW == \E p \in Procs, c \in Clients, r \in Routes :
                Arrive(p, [route |-> r, client |-> c, token |-> NoToken])

NextGW == ArriveGW \/ RateLimitCheck \/ RateLimitAdmit \/ RunHandler \/ TickRL

SpecGW == InitGW /\ [][NextGW]_vars

\* A burst of logins: one client sends enough login requests to fill two
\* windows and start a third.  The clock is observed when the first window
\* starts, just after it has elapsed, and at the last instant of the second
\* window and the instant after it.  Each admission is logged with the time
\* at which it is made.
BurstKey == RateKey("auth_rate_limit_middleware", "A")

BurstInstants == {0, AUTH_WINDOW + 1, 2 * AUTH_WINDOW + 1, 2 * AUTH_WINDOW + 2}

BurstRequests == 2 * AUTH_LIMIT + 1

InitBurst ==
    /\ rl = [k \in Keys |-> Absent]
    /\ cache = [last_update |-> 0, keys |-> NoKeys]
    /\ InitTasks
    /\ log = [o \in {BurstKey} |-> [t \in BurstInstants |-> 0]]
    /\ webhook_urls = 0

ArriveBurst == \E p \in Procs :
                   /\ nreq < BurstRequests
                   /\ Accept(p, [route |-> "/auth/login", client |-> "A", token |-> NoToken])

TickBurst == Tick(BurstInstants)

NextBurst == ArriveBurst \/ RateLimitCheck \/ RateLimitAdmit \/ RunHandler \/ TickBurst

SpecBurst == InitBurst /\ [][NextBurst]_vars

\* The protected route: one client presenting bearer tokens signed with the
\* provider's key before the rotation, its key after, or a key the provider
\* never had.  The clock is observed at the start, at the last instant at
\* which a cache stamped then is fresh, and at the first at which it is stale.
\* The client's windows start empty or full.
KcInstants == {0, CACHE_TTL, CACHE_TTL + 1}

FarExp == 100000

TokensKC == {Bearer("K1", 1, FarExp, "http://keycloak:8180/realms/r"),
             Bearer("K2", 2, FarExp, "http://keycloak:8180/realms/r"),
             Bearer("KX", 7, FarExp, "http://keycloak:8180/realms/r")}

InitKC ==
    /\ rl \in {[k \in Keys |-> Absent],
               [k \in Keys |-> [count |-> RateLimit(KeyLimiter(k)), window_start |-> 0]]}
    /\ cache \in InitCaches
    /\ InitTasks
    /\ log = NoLog
    /\ webhook_urls = 0

ArriveKC == \E p \in Procs, t \in TokensKC :
                Arrive(p, [route |-> "/api/v1/feedbacks", client |-> "A", token |-> t])

CacheRead == \E p \in Procs : KcRead(p)

FetchFails == \E p \in Procs : FetchErr(p)

FetchSucceeds == \E p \in Procs : FetchOk(p)

CacheWrite == \E p \in Procs : KcWrite(p)

CacheStamp == \E p \in Procs : KcStamp(p)

TickKC == Tick(KcInstants)

NextKC ==
    \/ ArriveKC \/ RateLimitCheck \/ RateLimitAdmit \/ RunHandler
    \/ CacheRead \/ FetchFails \/ FetchSucceeds \/ CacheWrite \/ CacheStamp
    \/ Rotate \/ TickKC

SpecKC == InitKC /\ [][NextKC]_vars

\* The runtime polls every task that can make progress, and a lock that is
\* released over and over is granted to each waiter in turn: each task's own
\* steps are fair.  The answer of the identity provider to a GET is not a
\* step of the program: reqwest::get waits for it without a deadline, and
\* nothing promises that it comes.
FairTasks ==
    \A p \in Procs :
        /\ SF_vars(RlCheck(p)) /\ WF_vars(RlAdmit(p)) /\ WF_vars(Handler(p))
        /\ SF_vars(KcRead(p)) /\ SF_vars(KcWrite(p)) /\ WF_vars(KcStamp(p))

SpecKCLive == SpecKC /\ FairTasks

\* The verifier: one client on the protected route presenting, one request
\* after the other, every kind of credential: tokens that expire at, just
\* before and long before the instants at which the clock is observed, tokens
\* of the accepted issuers and of another, a forged signature, an unknown kid,
\* no kid, a header that does not parse, a credential that is not a bearer
\* token, and none at all.
VtInstants == {0} \cup {LEEWAY + s : s \in 1..TimeSlack}

ExpsVT == {0, 1, LEEWAY, LEEWAY + 1}

TokensVT ==
    {Bearer("K1", 1, e, RealmUrl(KeycloakHost)) : e \in ExpsVT}
    \cup {Bearer("K1", 1, FarExp, RealmUrl(h)) : h \in {"localhost:8180", "idp.example:8180"}}
    \cup {Bearer("K1", 9, FarExp, RealmUrl(KeycloakHost)),
          Bearer("KX", 7, FarExp, RealmUrl(KeycloakHost)),
          Bearer(NoKid, 1, FarExp, RealmUrl(KeycloakHost)),
          [Bearer("K1", 1, FarExp, RealmUrl(KeycloakHost)) EXCEPT !.form = "bad"],
          [Bearer("K1", 1, FarExp, RealmUrl(KeycloakHost)) EXCEPT !.hdr = "basic"],
          NoToken}

InitVT ==
    /\ rl \in {[k \in Keys |-> Absent],
               [k \in Keys |-> [count |-> RateLimit(KeyLimiter(k)), window_start |-> 0]]}
    /\ cache \in InitCaches
    /\ InitTasks
    /\ log = NoLog
    /\ webhook_urls = 0

ArriveVT == \E p \in Procs, t \in TokensVT :
                /\ \A q \in Procs : pc[q] \in {"idle", "done"}
                /\ Arrive(p, [route |-> "/api/v1/feedbacks", client |-> "A", token |-> t])

TickVT == Tick(VtInstants)

NextVT ==
    \/ ArriveVT \/ RateLimitCheck \/ RateLimitAdmit \/ RunHandler
    \/ CacheRead \/ FetchFails \/ FetchSucceeds \/ CacheWrite \/ CacheStamp
    \/ TickVT

SpecVT == InitVT /\ [][NextVT]_vars

\* The key document: one client on the protected route presenting tokens
\* that name each kid the provider serves before or after its rotation, each
\* signed with the key pair the document lists under that kid: a signature
\* key, a key without a use, an encryption key, and a signature entry whose
\* n and e are not an RSA key.  The client's windows start empty; the clock
\* is observed at the start and when a cache stamped then has expired.
JwInstants == {0, CACHE_TTL + 1}

TokensJW == {Bearer(e.kid, e.mat, FarExp, RealmUrl(KeycloakHost)) :
                e \in JwksDocument(1) \cup JwksDocument(2)}

InitJW ==
    /\ rl = [k \in Keys |-> Absent]
    /\ cache \in InitCaches
    /\ InitTasks
    /\ log = NoLog
    /\ webhook_urls = 0

ArriveJW == \E p \in Procs, t \in TokensJW :
                Arrive(p, [route |-> "/api/v1/feedbacks", client |-> "A", token |-> t])

TickJW == Tick(JwInstants)

NextJW ==
    \/ ArriveJW \/ RateLimitCheck \/ RateLimitAdmit \/ RunHandler
    \/ CacheRead \/ FetchFails \/ FetchSucceeds \/ CacheWrite \/ CacheStamp
    \/ Rotate \/ TickJW

SpecJW == InitJW /\ [][NextJW]_vars

\* The feedback service: create_feedback is called, one call after the
\* other, with submissions of every type whose fields lie at and around each
\* limit of the validation: service names that are empty, blank, of one
\* character, of 100 and of 101 ASCII characters, and of 51 two-byte
\* characters; ratings absent and from -1 to 11; thumbs_up absent, true and
\* false; comments absent, empty, of one character, of 5000 and of 5001 ASCII
\* characters, and of 2501 two-byte characters.  No webhook URL is configured,
\* or one is; the repository may fail.
Services == {Str(0, 0, FALSE), Str(1, 1, TRUE), Str(1, 1, FALSE),
             Str(MAX_SERVICE_LEN, MAX_SERVICE_LEN, FALSE),
             Str(MAX_SERVICE_LEN + 1, MAX_SERVICE_LEN + 1, FALSE),
             Str(51, 102, FALSE)}

Ratings == {NoRating} \cup {Some(r) : r \in {-1, 0, 1, 5, 6, 10, 11}}

Comments == {NoStr, Str(0, 0, FALSE), Str(1, 1, FALSE),
             Str(MAX_COMMENT_LEN, MAX_COMMENT_LEN, FALSE),
             Str(MAX_COMMENT_LEN + 1, MAX_COMMENT_LEN + 1, FALSE),
             Str(2501, 5002, FALSE)}

Submissions ==
    {FeedbackSubmission(sv, ty, r, th, c) :
        sv \in Services, ty \in FeedbackTypes, r \in Ratings,
        th \in {"none", "true", "false"}, c \in Comments}

InitFB ==
    /\ rl = [k \in Keys |-> Absent]
    /\ cache = [last_update |-> 0, keys |-> NoKeys]
    /\ InitTasks
    /\ log = NoLog
    /\ webhook_urls \in {0, 1}

CreateFeedback == \E s \in Submissions : CallCreateFeedback(s)

NextFB ==
    \/ CreateFeedback \/ StepValidate \/ StepRules \/ PersistOk \/ PersistErr
    \/ RecordMetrics \/ TriggerWebhooks

SpecFB == InitFB /\ [][NextFB]_vars

\* ------------------------------------------------- properties: rate limiter

LimitOf(k) == RateLimit(KeyLimiter(k))
WindowOf(k) == RateWindow(KeyLimiter(k))

\* The key the limiter a task is in works on.
TaskKey(p) == RateKey(Pipeline(rq[p].route)[stage[p]], rq[p].client)

\* C1: of the requests of one client processed in one window, concurrently or
\* not, at most the limit are admitted, and as soon as one is rejected exactly
\* the limit have been admitted: M requests give min(M, N) admits and the rest
\* rejects, under every interleaving.
C1_ExactlyLimitAdmitted ==
    \A k \in Keys :
        /\ admitted[k] <= LimitOf(k)
        /\ rejected[k] > 0 => admitted[k] = LimitOf(k)

\* Two requests raced for the last slot of a general-class window: one was
\* admitted, the other rejected.
C1_Witness ==
    \E k \in Keys :
        /\ KeyLimiter(k) = "rate_limit_middleware"
        /\ raced /\ nreq = 2 /\ rl[k].window_start = 0
        /\ admitted[k] = GENERAL_LIMIT /\ rejected[k] = 1
        /\ \E p, q \in Procs : resp[p] = 429 /\ resp[q] = 401

\* C2: a request that finds its client's count at the limit, in a window that
\* has not elapsed at the request's time, is rejected with 429.
C2_NextAfterLimitRejected ==
    [][\A p \in Procs :
         (/\ pc[p] = "rl_entry" /\ pc'[p] # "rl_entry"
          /\ rl[TaskKey(p)] # Absent
          /\ rl[TaskKey(p)].count = LimitOf(TaskKey(p))
          /\ tnow[p] <= rl[TaskKey(p)].window_start + WindowOf(TaskKey(p)))
         => pc'[p] = "done" /\ resp'[p] = 429]_vars

\* The sixth login request of a client inside one minute was rejected.
C2_Witness ==
    \E k \in Keys, p \in Procs :
        /\ KeyLimiter(k) = "auth_rate_limit_middleware"
        /\ admitted[k] = AUTH_LIMIT /\ rejected[k] >= 1 /\ rl[k].window_start = 0
        /\ pc[p] = "done" /\ resp[p] = 429 /\ rq[p].route = "/auth/login"

\* C3: a request whose time is more than W after window_start is admitted,
\* whatever the count was, and leaves the window at count 1 started at its
\* own time: the check restarts the window at (0, now) and lets the request
\* in, nothing touches the entry while the request holds it, and the request
\* then counts itself.
C3_ElapsedWindowRestarts ==
    [][\A p \in Procs :
         pc[p] \in {"rl_entry", "rl_locked"}
         => LET k == TaskKey(p) IN
            /\ (/\ pc[p] = "rl_entry" /\ pc'[p] # "rl_entry"
                /\ rl[k] # Absent
                /\ tnow[p] > rl[k].window_start + WindowOf(k))
               => /\ pc'[p] = "rl_locked"
                  /\ rl'[k] = [count |-> 0, window_start |-> tnow[p]]
            /\ (pc[p] = "rl_locked" /\ pc'[p] = "rl_locked")
               => rl'[k] = rl[k]
            /\ (/\ pc[p] = "rl_locked" /\ pc'[p] # "rl_locked"
                /\ rl[k] = [count |-> 0, window_start |-> tnow[p]])
               => /\ rl'[k] = [count |-> 1, window_start |-> tnow[p]]
                  /\ resp'[p] # 429]_vars

\* Every window stood full; more than a login window later a login request
\* restarted its client's window and is the one request counted in it, while
\* the other client's window still stands full.
C3_Witness ==
    \E k, k2 \in Keys, p \in Procs :
        /\ KeyLimiter(k) = "auth_rate_limit_middleware"
        /\ KeyLimiter(k2) = "auth_rate_limit_middleware"
        /\ rl[k2] = [count |-> AUTH_LIMIT, window_start |-> 0]
        /\ rl[k] = [count |-> 1, window_start |-> now]
        /\ now > AUTH_WINDOW
        /\ admitted[k] = 1 /\ rejected[k] = 0
        /\ pc[p] = "done" /\ resp[p] = 200 /\ rq[p].route = "/auth/login"

\* C4: a step of a request of one client, admitted or rejected, leaves the
\* windows of every other client as they were.
C4_ClientsIsolated ==
    [][\A p \in Procs, c \in Clients :
         (/\ pc'[p] # pc[p] \/ resp'[p] # resp[p] \/ rq'[p] # rq[p]
          /\ c # rq'[p].client)
         => \A mw \in {"rate_limit_middleware", "auth_rate_limit_middleware"} :
                rl'[RateKey(mw, c)] = rl[RateKey(mw, c)]]_vars

\* Client B used up its general quota and was rejected while the window of
\* client A still stands as it started.
C4_Witness ==
    /\ rl[RateKey("rate_limit_middleware", "A")] =
          [count |-> GENERAL_LIMIT - 1, window_start |-> 0]
    /\ rl[RateKey("rate_limit_middleware", "B")].count = GENERAL_LIMIT
    /\ rejected[RateKey("rate_limit_middleware", "B")] >= 1
    /\ admitted[RateKey("rate_limit_middleware", "B")] = GENERAL_LIMIT

\* C18: a request rejected by a rate limiter leaves the whole map, and so its
\* client's count and window_start, exactly as it found them.
C18_RejectionLeavesWindow ==
    [][\A p \in Procs :
         (pc[p] = "rl_entry" /\ resp'[p] = 429)
         => /\ rl' = rl
            /\ rl[TaskKey(p)].count = LimitOf(TaskKey(p))]_vars

\* Two requests of a client were rejected by the general limiter, the second
\* at the last instant of the window; its window stands as it started.
C18_Witness ==
    \E k \in Keys, p \in Procs :
        /\ KeyLimiter(k) = "rate_limit_middleware"
        /\ rl[k] = [count |-> GENERAL_LIMIT, window_start |-> 0]
        /\ rejected[k] = 2 /\ now = GENERAL_WINDOW
        /\ pc[p] = "done" /\ resp[p] = 429 /\ TaskKey(p) = k

\* C21: a window restarts only when strictly more than W has elapsed since
\* window_start.  A request whose time is at most W after window_start (or
\* before it) leaves window_start as it is and is judged on the old count:
\* rejected when the count is at the limit, counted in the old window when it
\* is not; and whenever the window_start of a stored window changes, it is
\* the check of a request whose time is more than W after the old one.
C21_ResetOnlyAfterWindow ==
    [][/\ \A p \in Procs :
            pc[p] \in {"rl_entry", "rl_locked"}
            => LET k == TaskKey(p) IN
               (/\ pc[p] = "rl_entry" /\ pc'[p] # "rl_entry"
                /\ rl[k] # Absent
                /\ tnow[p] - rl[k].window_start <= WindowOf(k))
               => /\ rl'[k] = rl[k]
                  /\ IF rl[k].count = LimitOf(k)
                     THEN pc'[p] = "done" /\ resp'[p] = 429
                     ELSE pc'[p] = "rl_locked"
       /\ \A k \in Keys :
            (rl[k] # Absent /\ rl'[k].window_start # rl[k].window_start)
            => \E p \in Procs :
                  /\ pc[p] = "rl_entry" /\ pc'[p] = "rl_locked" /\ TaskKey(p) = k
                  /\ tnow[p] - rl[k].window_start > WindowOf(k)
                  /\ rl'[k].window_start = tnow[p]]_vars

\* A login request made exactly one window length after its client's window
\* started holds the entry of that window, which started one short of the
\* limit and stands as it started.
C21_Witness ==
    \E p \in Procs :
        /\ pc[p] = "rl_locked" /\ tnow[p] = AUTH_WINDOW
        /\ KeyLimiter(TaskKey(p)) = "auth_rate_limit_middleware"
        /\ rl[TaskKey(p)] = [count |-> AUTH_LIMIT - 1, window_start |-> 0]

\* C22: the two classes keep separate windows for one client.  A step of a
\* request in the login limiter changes the window keyed auth_<ip> and no
\* other, a step of a request in the general limiter the window keyed <ip>
\* and no other; and a limiter rejects only on its own window's count, so a
\* class whose window is not full never rejects, however full the other is.
C22_ClassesSeparate ==
    [][\A p \in Procs :
         (pc[p] \in {"rl_entry", "rl_locked"} /\ pc'[p] # pc[p])
         => LET mw == Pipeline(rq[p].route)[stage[p]]
                own == IF mw = "auth_rate_limit_middleware"
                       THEN "auth_" \o rq[p].client ELSE rq[p].client
                limit == IF mw = "auth_rate_limit_middleware" THEN AUTH_LIMIT
                         ELSE GENERAL_LIMIT
            IN
            /\ \A k \in Keys \ {own} : rl'[k] = rl[k]
            /\ resp'[p] = 429
               => /\ own \in Keys
                  /\ rl[own] # Absent
                  /\ rl[own].count = limit]_vars

\* Client A's login window stands full and its login request was rejected,
\* while its request on the protected route, made after the general window
\* had elapsed, was admitted by the general limiter into a new window.
C22_Witness ==
    \E p, q \in Procs :
        /\ rl["auth_A"] = [count |-> AUTH_LIMIT, window_start |-> 0]
        /\ rejected["auth_A"] >= 1
        /\ rl["A"].count = 1 /\ rl["A"].window_start > GENERAL_WINDOW
        /\ pc[p] = "done" /\ resp[p] = 429
        /\ rq[p] = [route |-> "/auth/login", client |-> "A", token |-> NoToken]
        /\ pc[q] = "done" /\ resp[q] = 401
        /\ rq[q] = [route |-> "/api/v1/feedbacks", client |-> "A", token |-> NoToken]

\* C25: in every reachable state each stored window has a count from 0 to
\* its class limit (100 for a general key, 5 for a login key), and a count of
\* at least 1 whenever no request holds its entry: the request that creates
\* or restarts a window has counted itself when it lets go of the entry.
C25_CountWithinLimit ==
    \A k \in Keys :
        rl[k] # Absent
        => /\ rl[k].count >= 0
           /\ rl[k].count <= LimitOf(k)
           /\ LimitOf(k) = (IF k \in {"auth_" \o c : c \in Clients} THEN 5 ELSE 100)
           /\ rlLock[k] = {} => rl[k].count >= 1

\* Two requests of a client that had no window raced for its entry; the
\* first created the window, both are counted in it, and the entry is free.
C25_Witness ==
    \E k \in Keys :
        /\ rl[k] = [count |-> 2, window_start |-> 0]
        /\ rlLock[k] = {} /\ raced /\ admitted[k] = 2 /\ nreq = 2

\* C27: the window_start of a stored window never moves backwards.  A request
\* that sampled the clock before the stored window_start (it read the clock,
\* and another request took the entry first and started the window later)
\* does not restart the window: it leaves the entry as it found it, is
\* admitted when the count is below the limit, and is then counted in that
\* window.
C27_WindowStartMonotone ==
    [][/\ \A k \in Keys :
            rl[k] # Absent => rl'[k].window_start >= rl[k].window_start
       /\ \A p \in Procs :
            pc[p] \in {"rl_entry", "rl_locked"}
            => LET k == TaskKey(p) IN
               /\ (/\ pc[p] = "rl_entry" /\ pc'[p] # "rl_entry"
                   /\ rl[k] # Absent
                   /\ tnow[p] < rl[k].window_start)
                  => /\ rl'[k] = rl[k]
                     /\ rl[k].count < LimitOf(k) => pc'[p] = "rl_locked"
               /\ (pc[p] = "rl_locked" /\ pc'[p] # "rl_locked")
                  => rl'[k] = [count |-> rl[k].count + 1,
                               window_start |-> rl[k].window_start]]_vars

\* A request that read the clock at the start holds the entry of a window
\* which another request of its client, reading the clock more than a window
\* length later, started and is counted in.
C27_Witness ==
    \E p \in Procs :
        /\ pc[p] = "rl_locked" /\ tnow[p] = 0
        /\ rl[TaskKey(p)].window_start > WindowOf(TaskKey(p))
        /\ rl[TaskKey(p)].count = 1

RECURSIVE SumOver(_, _)
SumOver(f, S) ==
    IF S = {} THEN 0
    ELSE LET t == CHOOSE x \in S : TRUE IN f[t] + SumOver(f, S \ {t})

\* The admissions logged for key k at the instants from a to b.
AdmittedIn(k, a, b) == SumOver(log[k], {t \in DOMAIN log[k] : a <= t /\ t <= b})

\* C20: for one client and one class, the requests admitted in any interval
\* of time no longer than the window are at most twice the limit.
C20_BurstBound ==
    \A k \in DOMAIN log : \A a \in DOMAIN log[k] :
        AdmittedIn(k, a, a + WindowOf(k)) <= 2 * LimitOf(k)

\* --------------------------------------------------- properties: key cache

\* The kids the provider ever serves.
ProviderKids == {e.kid : e \in JwksDocument(1) \cup JwksDocument(2)}

Verifying == {"kc_read", "kc_fetch", "kc_write", "kc_stamp"}

\* C5: on the protected route a rate limiter comes before the token verifier:
\* a request is in verification, or has looked at the key cache, only after a
\* rate limiter admitted it, so a request answered 429 has made no key-cache
\* lookup and no fetch from the identity provider.
C5_LimiterBeforeVerifier ==
    \A p \in Procs :
        /\ (pc[p] \in Verifying \/ lookups[p] > 0 \/ fetches[p] > 0)
           => \E i \in 1..(stage[p] - 1) : IsRateLimiter(Pipeline(rq[p].route)[i])
        /\ resp[p] = 429 => lookups[p] = 0 /\ fetches[p] = 0

\* A request carrying a well-formed bearer token was rejected by the limiter.
C5_Witness ==
    \E p \in Procs :
        /\ pc[p] = "done" /\ resp[p] = 429
        /\ rq[p].route = "/api/v1/feedbacks"
        /\ HeaderError(rq[p].token) = ""
        /\ lookups[p] = 0 /\ fetches[p] = 0

C7_StalenessThreshold ==
    /\ [][\A p \in Procs :
            (pc[p] = "kc_read" /\ pc'[p] # "kc_read")
            => /\ (/\ rq[p].token.kid \in DOMAIN cache.keys
                   /\ now - cache.last_update <= CACHE_TTL)
                  => /\ fetches'[p] = 0
                     /\ pc'[p] # "kc_fetch"
                     /\ Decodes(rq[p].token, cache.keys[rq[p].token.kid], now) = (pc'[p] = "handler")
               /\ (now - cache.last_update > CACHE_TTL)
                  => pc'[p] = "kc_fetch" /\ fetches'[p] = 1]_vars
    /\ [](\A p \in Procs : fetches[p] <= 1)

\* A lookup found its kid in a cache older than the ttl and fetched.
C7_Witness ==
    \E p \in Procs :
        /\ pc[p] = "kc_fetch" /\ fetches[p] = 1
        /\ rq[p].token.kid \in DOMAIN cache.keys
        /\ now - cache.last_update > CACHE_TTL

\* C8: a failed fetch ends the lookup with the fetch error (401 to the caller)
\* and leaves the key map and last_update as they were.
C8_FailedRefreshKeepsCache ==
    [][\A p \in Procs :
         (pc[p] = "kc_fetch" /\ err'[p] = "Failed to fetch JWKS")
         => /\ cache' = cache
            /\ pc'[p] = "done" /\ resp'[p] = 401]_vars

\* A fetch failed while the cache held keys, and it still holds them.
C8_Witness ==
    \E p \in Procs :
        /\ pc[p] = "done" /\ err[p] = "Failed to fetch JWKS" /\ resp[p] = 401
        /\ cache.keys # NoKeys

\* C9: a lookup never returns a key from an expired cache: it fetches; and a
\* request whose fetch fails is answered 401, whether or not the expired
\* cache holds its kid.
C9_FailClosedOnStale ==
    [][\A p \in Procs :
         /\ (/\ pc[p] = "kc_read" /\ pc'[p] # "kc_read"
             /\ now - cache.last_update > CACHE_TTL)
            => pc'[p] = "kc_fetch"
         /\ (pc[p] = "kc_fetch" /\ pc'[p] \notin {"kc_fetch", "kc_write"})
            => pc'[p] = "done" /\ resp'[p] = 401]_vars

\* The cache is expired and holds the token's kid, the refresh failed, and
\* the request was answered 401.
C9_Witness ==
    \E p \in Procs :
        /\ pc[p] = "done" /\ err[p] = "Failed to fetch JWKS" /\ resp[p] = 401
        /\ rq[p].token.kid \in DOMAIN cache.keys
        /\ now - cache.last_update > CACHE_TTL

\* C10: at most one lookup at a time is between sending its fetch and
\* finishing its replacement of the cache.
C10_OneRefreshInFlight ==
    Cardinality({p \in Procs : pc[p] \in {"kc_fetch", "kc_write", "kc_stamp"}}) <= 1

\* C11: readers never see a partly replaced cache.  A lookup reads the cache
\* only while no refresh holds it, and between two instants at which the cache
\* can be read it is either unchanged or holds the key map and the timestamp
\* of the one refresh that completed in between.
C11_NoPartialKeySet ==
    [][/\ \A p \in Procs : lookups'[p] > lookups[p] => cacheW = {}
       /\ cacheW' = {}
          => \/ cacheW = {} /\ cache' = cache
             \/ \E p \in Procs :
                   /\ pc[p] = "kc_stamp" /\ pc'[p] # "kc_stamp"
                   /\ cacheW = {p}
                   /\ cache' = [last_update |-> now, keys |-> got[p]]]_vars

\* A refresh has put the rotated keys in place but not yet the timestamp,
\* while another request waits to read the cache.
C11_Witness ==
    \E p, q \in Procs :
        /\ pc[p] = "kc_stamp" /\ cacheW = {p}
        /\ cache.keys = BuildKeys(JwksDocument(2))
        /\ cache.last_update < now
        /\ pc[q] = "kc_read"

\* C12: a verification that sends a fetch is always answered in the end,
\* whether or not the identity provider ever answers the fetch.
C12_RefreshTerminates ==
    \A p \in Procs : (pc[p] = "kc_fetch") ~> (pc[p] = "done")

\* C19: a fetch that succeeds puts the fetched keys and the time of the
\* refresh in the cache before the kid is looked up: a lookup that ends in
\* "key not found" after a successful fetch leaves the cache holding the keys
\* the provider served, stamped now.
C19_FetchReplacesBeforeLookup ==
    [][\A p \in Procs :
         (pc[p] = "kc_fetch" /\ err'[p] = "Key not found")
         => /\ cache'.keys = BuildKeys(JwksDocument(idp))
            /\ cache'.last_update = now]_vars

\* C26: the cache never goes back to older provider data: once it holds
\* the keys fetched after the rotation, no refresh puts the keys of the
\* document served before the rotation back in their place.
C26_NoOlderOverwrite ==
    [][cache.keys = BuildKeys(JwksDocument(2))
       => cache'.keys # BuildKeys(JwksDocument(1))]_vars

\* The positions at which a task is suspended: in the handler, waiting for
\* the provider's answer, waiting for the cache's read or write lock; and the
\* positions of a task that has no request or has answered it.
Suspended == {"handler", "kc_fetch", "kc_read", "kc_write", "idle", "done"}

\* C28: no shared lock is held across a suspension point: a task that is in
\* the handler, waits for the provider or for a lock of the cache, or has
\* answered, holds no rate-limit entry and not the cache's write lock.  Hence
\* while every other task is suspended, a task waiting for a rate-limit entry
\* can make its check, and a task waiting to read the cache can read it; and
\* when the cache is fresh and holds its kid, its lookup ends without a fetch.
C28_NoLockAcrossSuspension ==
    /\ [](\A p \in Procs :
            /\ pc[p] \in Suspended
               => p \notin cacheW /\ \A k \in Keys : p \notin rlLock[k]
            /\ (\A q \in Procs \ {p} : pc[q] \in Suspended)
               => /\ pc[p] = "rl_entry" => ENABLED RlCheck(p)
                  /\ pc[p] = "kc_read" => ENABLED KcRead(p))
    /\ [][\A p \in Procs :
            (/\ pc[p] = "kc_read" /\ pc'[p] # "kc_read"
             /\ rq[p].token.kid \in DOMAIN cache.keys
             /\ now - cache.last_update <= CACHE_TTL)
            => pc'[p] \in {"handler", "done"} /\ fetches'[p] = 0]_vars

\* While the fetch of one request is in flight, another request, admitted by
\* the limiter and served from the fresh cache, is in the handler.
C28_Witness ==
    \E p, q \in Procs :
        /\ pc[q] = "kc_fetch" /\ fetches[q] = 1
        /\ pc[p] = "handler" /\ lookups[p] = 1 /\ fetches[p] = 0
        /\ q < p /\ nreq = 2
        /\ rq[p].token.kid \in DOMAIN cache.keys
        /\ now - cache.last_update <= CACHE_TTL

\* The entries the provider ever serves.
ProviderEntries == JwksDocument(1) \cup JwksDocument(2)

\* Every key of the map m is the key of an entry of doc with the same kid
\* whose use is absent or "sig".
FromEligible(m, doc) ==
    \A kid \in DOMAIN m :
        \E e \in doc : e.kid = kid /\ e.use \in {"sig", NoKid} /\ e.mat = m[kid]

\* C24: the cache, and every key map a refresh is about to store, holds under
\* a kid only the key of an entry of the provider's document with that kid
\* whose use is absent or "sig"; a successful fetch builds its map from the
\* document the provider serves then, and the refresh stores that map; so a
\* request whose token names a kid listed only with another use never gets a
\* key, whoever signed it: it never reaches the handler.
C24_OnlySignatureKeys ==
    /\ [](/\ FromEligible(cache.keys, ProviderEntries)
          /\ \A p \in Procs :
                /\ FromEligible(got[p], ProviderEntries)
                /\ (\A e \in ProviderEntries : e.kid = rq[p].token.kid => e.use \notin {"sig", NoKid})
                   => pc[p] # "handler" /\ resp[p] # 200)
    /\ [][\A p \in Procs :
            /\ (pc[p] = "kc_fetch" /\ pc'[p] = "kc_write")
               => FromEligible(got'[p], JwksDocument(idp))
            /\ (pc[p] = "kc_stamp" /\ pc'[p] # "kc_stamp")
               => cache'.keys = got[p]]_vars

\* After the rotation a refresh stored the key that has no use, and a token
\* naming the encryption key, signed with it, was then refused: the fetched
\* keys did not hold its kid.
C24_Witness ==
    \E p \in Procs :
        /\ idp = 2 /\ DOMAIN cache.keys = {"K2"} /\ cache.last_update > 0
        /\ pc[p] = "done" /\ resp[p] = 401 /\ err[p] = "Key not found"
        /\ rq[p].token.kid = "KE" /\ rq[p].token.sig = 5
        /\ fetches[p] = 1

\* ---------------------------------------------------- properties: verifier

\* C13: a request whose token's exp is earlier than the time at which the
\* token is validated never passes the verifier, whatever its signature and
\* issuer.
C13_ExpiredNeverAccepted ==
    [][\A p \in Procs :
         (pc[p] \in Verifying /\ pc'[p] = "handler") => rq[p].token.exp >= now]_vars

\* C14: a request passes the verifier only with an iss that is the provider's
\* URL or that URL with host localhost:8180 in place of keycloak:8180; with
\* any other iss it is refused even when signature and exp are good; and a
\* token with one of the two issuers is never refused for its issuer: when its
\* validation fails, its signature is wrong or its exp is too old.
C14_IssuerCheck ==
    [][\A p \in Procs :
         LET tok == rq[p].token
             two == {"http://keycloak:8180/realms/r", "http://localhost:8180/realms/r"}
         IN
         /\ (pc[p] \in Verifying /\ pc'[p] = "handler") => tok.iss \in two
         /\ (/\ pc[p] \in Verifying /\ err'[p] = "Token validation failed"
             /\ tok.iss \in two)
            => \/ tok.sig # BuildKeys(JwksDocument(idp))[tok.kid]
               \/ tok.exp < now - LEEWAY]_vars

\* A token with a good signature and a far exp, issued under another host,
\* was refused.
C14_Witness ==
    \E p \in Procs :
        /\ pc[p] = "done" /\ resp[p] = 401 /\ err[p] = "Token validation failed"
        /\ rq[p].token.iss = "http://idp.example:8180/realms/r"
        /\ rq[p].token.sig = 1 /\ rq[p].token.kid = "K1"
        /\ rq[p].token.exp > now

\* C15: on the protected route the handler is entered only by the step in
\* which the request's token passed validation (bearer header, parsable, a
\* kid whose key verifies the signature, exp within the leeway, an accepted
\* issuer), and then the token's Claims are attached to the request; a request
\* that fails any check is answered 401 at once, carries no Claims and never
\* was in the handler.
C15_HandlerOnlyAfterVerification ==
    /\ [](\A p \in Procs :
            rq[p].route = "/api/v1/feedbacks"
            => /\ (pc[p] = "handler" \/ resp[p] = 200)
                  => /\ ext[p] = [exp |-> rq[p].token.exp, iss |-> rq[p].token.iss]
                     /\ HeaderError(rq[p].token) = ""
                     /\ lookups[p] = 1
               /\ resp[p] = 401 => pc[p] = "done" /\ ext[p] = NoClaims)
    /\ [][\A p \in Procs :
            LET tok == rq[p].token IN
            /\ (pc'[p] = "handler" /\ pc[p] # "handler")
               => /\ pc[p] \in {"kc_read", "kc_stamp"}
                  /\ tok.kid \in DOMAIN BuildKeys(JwksDocument(idp))
                  /\ tok.sig = BuildKeys(JwksDocument(idp))[tok.kid]
                  /\ tok.exp >= now - LEEWAY
                  /\ tok.iss \in {"http://keycloak:8180/realms/r",
                                  "http://localhost:8180/realms/r"}
            /\ (resp'[p] = 401 /\ resp[p] # 401)
               => pc[p] # "handler" /\ pc'[p] = "done"
            /\ (pc[p] = "handler" /\ pc'[p] # "handler") => resp'[p] = 200]_vars

\* A request with a valid token is in the handler with its Claims attached.
C15_Witness ==
    \E p \in Procs :
        /\ pc[p] = "handler" /\ rq[p].route = "/api/v1/feedbacks"
        /\ ext[p] = ClaimsOf(rq[p].token) /\ ext[p] # NoClaims
        /\ lookups[p] = 1

\* The reasons for which the verifier refuses a request.
AuthFailures ==
    {"Unauthorized", "Invalid token header", "Token header missing 'kid'",
     "Key not found", "Failed to fetch JWKS", "Token validation failed"}

\* C16: whichever check of the verifier a request failed, the caller gets the
\* same response, status 401 with an empty body, so any two refusals look
\* alike; a request refused by a rate limiter gets status 429.
C16_GenericUnauthorized ==
    /\ \A p \in Procs :
          /\ err[p] \in AuthFailures => resp[p] = 401 /\ body[p] = ""
          /\ resp[p] = 401 => err[p] \in AuthFailures
          /\ err[p] \in {RateLimitBody(mw) : mw \in {"rate_limit_middleware",
                                                     "auth_rate_limit_middleware"}}
             => resp[p] = 429
    /\ \A p, q \in Procs :
          (resp[p] = 401 /\ resp[q] = 401) => body[p] = body[q]

\* A request was refused because its token had expired: status 401, no body.
C16_Witness ==
    \E p \in Procs :
        /\ pc[p] = "done" /\ resp[p] = 401 /\ body[p] = ""
        /\ err[p] = "Token validation failed"
        /\ rq[p].token.exp < now - LEEWAY
        /\ rq[p].token.sig = 1 /\ rq[p].token.iss = RealmUrl(KeycloakHost)

\* C23: a bearer token whose header parses and carries no kid fails before
\* the key cache is consulted: its request is never in the key lookup nor in
\* the handler, has read the cache zero times and fetched zero times, and the
\* step that refuses it leaves the cache, its lock and the provider alone.
C23_MissingKidBeforeCache ==
    /\ [](\A p \in Procs :
            (/\ rq[p].token.hdr = "bearer" /\ rq[p].token.form = "ok"
             /\ rq[p].token.kid = NoKid)
            => /\ lookups[p] = 0 /\ fetches[p] = 0
               /\ pc[p] \notin {"kc_read", "kc_fetch", "kc_write", "kc_stamp", "handler"}
               /\ resp[p] \in {0, 401, 429})
    /\ [][\A p \in Procs :
            (err'[p] = "Token header missing 'kid'" /\ pc[p] # "done")
            => /\ cache' = cache /\ cacheW' = cacheW /\ idp' = idp
               /\ pc'[p] = "done" /\ resp'[p] = 401
               /\ lookups'[p] = 0 /\ fetches'[p] = 0]_vars

\* A token without a kid was refused while the cache was empty, and no
\* lookup and no fetch was made for it.
C23_Witness ==
    \E p \in Procs :
        /\ pc[p] = "done" /\ resp[p] = 401 /\ err[p] = "Token header missing 'kid'"
        /\ rq[p].token.kid = NoKid /\ rq[p].token.hdr = "bearer"
        /\ lookups[p] = 0 /\ fetches[p] = 0
        /\ cache = [last_update |-> 0, keys |-> NoKeys]

\* ------------------------------------------- properties: feedback service

\* C29: create_feedback validates, then persists, then records the metrics,
\* then triggers the webhooks.  A row is persisted only by the persist step of
\* a call whose submission passed the validation and the business rules; a
\* metric is recorded only by the metrics step and a webhook task spawned only
\* by the webhooks step, both only in a call whose persist returned a
\* feedback; a webhook task is spawned exactly when a URL is configured; a
\* call that returns an error has no feedback, and between calls every
\* persisted row is counted once, and notified once when a URL is configured.
C29_CreateFeedbackOrder ==
    /\ [](/\ fpc \in {"persist", "metrics", "webhooks"}
             => Validate(submission) = "" /\ BusinessRules(submission) = ""
          /\ fpc \in {"metrics", "webhooks"} => feedback # NoFeedback
          /\ fres = "Ok" => fpc = "done" /\ feedback # NoFeedback
          /\ (fpc = "done" /\ fres # "Ok") => feedback = NoFeedback
          /\ fpc \in {"idle", "done"}
             => /\ counted = rows
                /\ hooks = (IF webhook_urls > 0 THEN rows ELSE 0))
    /\ [][/\ fpc' # fpc
             => \/ fpc \in {"idle", "done"} /\ fpc' = "validate"
                \/ fpc = "validate" /\ fpc' \in {"rules", "done"}
                \/ fpc = "rules" /\ fpc' \in {"persist", "done"}
                \/ fpc = "persist" /\ fpc' \in {"metrics", "done"}
                \/ fpc = "metrics" /\ fpc' = "webhooks"
                \/ fpc = "webhooks" /\ fpc' = "done"
          /\ rows' # rows
             => fpc = "persist" /\ fpc' = "metrics" /\ rows' = rows + 1
          /\ counted' # counted
             => /\ fpc = "metrics" /\ counted' = counted + 1
                /\ feedback # NoFeedback /\ feedback = rows
          /\ hooks' # hooks
             => /\ fpc = "webhooks" /\ hooks' = hooks + 1
                /\ feedback # NoFeedback /\ webhook_urls > 0
                /\ counted = rows
          /\ (fpc = "webhooks" /\ fpc' # "webhooks" /\ webhook_urls > 0)
             => hooks' = hooks + 1
          /\ (fpc # "done" /\ fpc' = "done" /\ fres' # "Ok")
             => rows' = rows /\ counted' = counted /\ hooks' = hooks]_vars

\* With a webhook URL configured, a first call persisted its feedback,
\* recorded it and spawned the webhook task; in a second call the repository
\* failed, and nothing more was recorded or notified.
C29_Witness ==
    /\ webhook_urls > 0 /\ calls = 2
    /\ fpc = "done" /\ fres = "Failed to create feedback"
    /\ rows = 1 /\ counted = 1 /\ hooks = 1

\* C30: validate returns Ok exactly when the service name has 1 to 100
\* characters, the field of the feedback type is there (Rating: a rating from
\* 1 to 5; Nps: a rating from 0 to 10; Thumbs: thumbs_up; Comment: a comment
\* that is not empty), and a comment that is present has at most 5000
\* characters; otherwise it returns a ValidationError.
C30_ValidateExactly ==
    [][(fpc = "validate" /\ fpc' # "validate")
       => LET s == submission
              ok == /\ s.service.chars >= 1 /\ s.service.chars <= 100
                    /\ s.feedback_type = "Rating"
                       => \E r \in 1..5 : s.rating = {r}
                    /\ s.feedback_type = "Nps"
                       => \E r \in 0..10 : s.rating = {r}
                    /\ s.feedback_type = "Thumbs" => s.thumbs_up # "none"
                    /\ s.feedback_type = "Comment"
                       => s.comment # NoStr /\ s.comment.chars >= 1
                    /\ s.comment # NoStr => s.comment.chars <= 5000
          IN
          IF ok THEN fpc' = "rules" /\ fres' = ""
          ELSE fpc' = "done" /\ fres' \notin {"", "Ok"}]_vars

\* ------------------------------------------------------ properties: router

\* C17: every request, whatever its route, first enters the general rate
\* limiter, and a login request reaches its handler only out of the login
\* rate limiter.
C17_GeneralLimiterOnEveryRoute ==
    [][\A p \in Procs :
         /\ (nreq' > nreq /\ (rq'[p] # rq[p] \/ pc'[p] # pc[p]))
            => /\ pc'[p] = "rl_entry"
               /\ Pipeline(rq'[p].route)[stage'[p]] = "rate_limit_middleware"
         /\ (pc'[p] = "handler" /\ pc[p] # "handler" /\ rq'[p].route = "/auth/login")
            => /\ pc[p] = "rl_locked"
               /\ Pipeline(rq[p].route)[stage[p]] = "auth_rate_limit_middleware"]_vars

====
